---- MODULE Spec2Model ----
(***************************************************************************)
(* Object Pool Management service (src/main.py, src/model.py).             *)
(*                                                                         *)
(* The state is the module-level dictionary `pools` of main.py, mapping a  *)
(* type name to an ObjectPoolManagement instance, and the process-wide     *)
(* `max_size` read once at start-up.  Each request handler of main.py is   *)
(* one action; the methods of ObjectPoolManagement are operators the       *)
(* handlers call.  `last` records the request most recently served and its *)
(* response, `pre` the value of `pools` when that request arrived, and     *)
(* `mon` how far the most recent requests match a create/sample or an      *)
(* insert/remove/remove sequence on one pool and object; `scen` counts the  *)
(* requests served while they were, from the first one on, the requests of *)
(* `Scenario` in order (-1 once they are not).                             *)
(***************************************************************************)
EXTENDS Integers, Sequences, FiniteSets, TLC

VARIABLES pools, max_size, last, pre, mon, scen

vars == <<pools, max_size, last, pre, mon, scen>>

\* Largest MAX_POOL_SIZE setting explored.
MaxCapacity == 3

-----------------------------------------------------------------------------
(* Types and objects                                                       *)

\* model.py:35-39: type name -> class.
registered_types == [shirt |-> "Shirt", pants |-> "Pants", sock |-> "Sock"]

\* Type names a request may carry: the registered ones and one that is not.
TypeNames == DOMAIN registered_types \cup {"book"}

\* Python's None (no item in the request, no object in the response).
None == [cls |-> "None"]

\* model.py:14-33: the three registered classes have fields size and color.
Garment(c, size, color) == [cls |-> c, size |-> size, color |-> color]

\* main.py:47-49: a class that is not registered.
Book == [cls |-> "Book", title |-> "1984", author |-> "George Orwell"]

\* Objects a request body may carry.
Items == {Garment("Shirt", "M", "blue"), Garment("Shirt", "L", "red"),
          Garment("Pants", "M", "blue"), Garment("Sock", "M", "blue"), Book}

\* BaseModel.dict(): the fields of the object by name, without its class.
dict(obj) == [f \in DOMAIN obj \ {"cls"} |-> obj[f]]

\* isinstance accepting every object.
isinstance_any(obj, t) == TRUE

\* isinstance(obj, t): no class here is a subclass of another.
isinstance(obj, t) == obj.cls = t

\* pydantic BaseModel.__eq__ as used by `in` and list.remove: field-wise
\* equality of the two objects.
ObjEq(a, b) == a = b

\* obj in self.pool
Contains(seq, obj) == \E i \in 1..Len(seq) : ObjEq(seq[i], obj)

\* A removal that drops every element equal to obj.
ListRemoveAll(seq, obj) == SelectSeq(seq, LAMBDA x : ~ObjEq(x, obj))

\* A removal that drops the last element of the list, whatever it is
\* (list.pop()).
ListRemoveLast(seq, obj) == SubSeq(seq, 1, Len(seq) - 1)

\* A removal that drops the last element equal to obj instead of the first.
ListRemoveLastMatch(seq, obj) ==
    LET i == CHOOSE k \in 1..Len(seq) :
                 /\ ObjEq(seq[k], obj)
                 /\ \A j \in (k + 1)..Len(seq) : ~ObjEq(seq[j], obj)
    IN  SubSeq(seq, 1, i - 1) \o SubSeq(seq, i + 1, Len(seq))

\* list.remove(obj): drops the first element equal to obj.
ListRemove(seq, obj) ==
    LET i == CHOOSE k \in 1..Len(seq) :
                 /\ ObjEq(seq[k], obj)
                 /\ \A j \in 1..(k - 1) : ~ObjEq(seq[j], obj)
    IN  SubSeq(seq, 1, i - 1) \o SubSeq(seq, i + 1, Len(seq))

-----------------------------------------------------------------------------
(* ObjectPoolManagement (model.py:48-107).  A method yields the instance   *)
(* after the call, the exception raised ("" when none) with its message,   *)
(* and the value returned.                                                 *)

Outcome(self, exc, detail, ret) ==
    [self |-> self, exc |-> exc, detail |-> detail, ret |-> ret]

\* __init__ ignoring its max_size argument in favour of the documented default.
init_default_max_size(expected_type, size) ==
    [pool |-> <<>>, expected_type |-> expected_type, max_size |-> 536870912]

\* model.py:52-62
ObjectPoolManagement_init(expected_type, size) ==
    [pool |-> <<>>, expected_type |-> expected_type, max_size |-> size]

\* add_object_to_pool with the capacity test off by one (> for >=).
add_object_to_pool_off_by_one(self, obj) ==
    IF ~isinstance(obj, self.expected_type)
    THEN Outcome(self, "ValueError", "Object type does not match expected type", None)
    ELSE IF Len(self.pool) > self.max_size
    THEN Outcome(self, "InputTooLargeError", "Input list is too large.", None)
    ELSE Outcome([self EXCEPT !.pool = Append(self.pool, obj)], "", "", None)

\* add_object_to_pool raising InputTooLargeError after the append.
add_object_to_pool_late_check(self, obj) ==
    IF ~isinstance(obj, self.expected_type)
    THEN Outcome(self, "ValueError", "Object type does not match expected type", None)
    ELSE IF Len(self.pool) >= self.max_size
    THEN Outcome([self EXCEPT !.pool = Append(self.pool, obj)],
                 "InputTooLargeError", "Input list is too large.", None)
    ELSE Outcome([self EXCEPT !.pool = Append(self.pool, obj)], "", "", None)

\* add_object_to_pool enlarging a full pool instead of refusing the object.
add_object_to_pool_growing(self, obj) ==
    IF ~isinstance(obj, self.expected_type)
    THEN Outcome(self, "ValueError", "Object type does not match expected type", None)
    ELSE IF Len(self.pool) >= self.max_size
    THEN Outcome([self EXCEPT !.pool = Append(self.pool, obj),
                              !.max_size = self.max_size + 1], "", "", None)
    ELSE Outcome([self EXCEPT !.pool = Append(self.pool, obj)], "", "", None)

\* model.py:64-79
ObjectPoolManagement_add_object_to_pool(self, obj) ==
    IF ~isinstance(obj, self.expected_type)
    THEN Outcome(self, "ValueError", "Object type does not match expected type", None)
    ELSE IF Len(self.pool) >= self.max_size
    THEN Outcome(self, "InputTooLargeError", "Input list is too large.", None)
    ELSE Outcome([self EXCEPT !.pool = Append(self.pool, obj)], "", "", None)

\* remove_object_from_pool emptying the pool before reporting an absent
\* object.
remove_object_clearing_on_miss(self, obj) ==
    IF ~Contains(self.pool, obj)
    THEN Outcome([self EXCEPT !.pool = <<>>], "ValueError", "Object not found in pool", None)
    ELSE Outcome([self EXCEPT !.pool = ListRemove(self.pool, obj)], "", "", None)

\* model.py:81-93
ObjectPoolManagement_remove_object_from_pool(self, obj) ==
    IF ~Contains(self.pool, obj)
    THEN Outcome(self, "ValueError", "Object not found in pool", None)
    ELSE Outcome([self EXCEPT !.pool = ListRemove(self.pool, obj)], "", "", None)

\* A sample that takes the chosen object out of the pool (list.pop).
get_random_object_popping(self) ==
    IF Len(self.pool) = 0
    THEN {Outcome(self, "IndexError", "No objects in the pool", None)}
    ELSE {Outcome([self EXCEPT !.pool = SubSeq(self.pool, 1, i - 1)
                                        \o SubSeq(self.pool, i + 1, Len(self.pool))],
                  "", "", self.pool[i]) : i \in 1..Len(self.pool)}

\* model.py:95-107: the set of possible outcomes, one per choice of
\* random.choice.
ObjectPoolManagement_get_random_object_from_pool(self) ==
    IF Len(self.pool) = 0
    THEN {Outcome(self, "IndexError", "No objects in the pool", None)}
    ELSE {Outcome(self, "", "", self.pool[i]) : i \in 1..Len(self.pool)}

-----------------------------------------------------------------------------
(* Request handlers (main.py)                                              *)

Response(op, type_name, item, status, detail, ret) ==
    [op |-> op, type_name |-> type_name, item |-> item,
     status |-> status, detail |-> detail, ret |-> ret]

\* An assignment after which every pool shares the member list of p (a list
\* held by the class instead of the instance).
StoreSharedList(type_name, p) ==
    [n \in DOMAIN pools \cup {type_name} |->
        IF n = type_name THEN p ELSE [pools[n] EXCEPT !.pool = p.pool]]

\* pools[type_name] = p
Store(type_name, p) ==
    [n \in DOMAIN pools \cup {type_name} |-> IF n = type_name THEN p ELSE pools[n]]

NoMon == [phase |-> "", before |-> 0, dup |-> FALSE]

\* The sequence of requests matched so far, given the response r just
\* produced: "C" a successful create, "CS" a sample right after it on the same
\* pool; "I" a successful insert, "IR" a successful removal of the same object
\* from the same pool right after it, "IRR" a further removal right after
\* that.  before and dup are the member count and the presence of an equal
\* member when the insert arrived.
Advance(r) ==
    LET same == r.type_name = last.type_name /\ r.item = last.item IN
    IF r.op = "create" /\ r.status = 200
    THEN [NoMon EXCEPT !.phase = "C"]
    ELSE IF r.op = "get_random" /\ mon.phase = "C" /\ r.type_name = last.type_name
    THEN [NoMon EXCEPT !.phase = "CS"]
    ELSE IF r.op = "add" /\ r.status = 200
    THEN [phase |-> "I",
          before |-> Len(pools[r.type_name].pool),
          dup |-> Contains(pools[r.type_name].pool, r.item)]
    ELSE IF r.op = "remove" /\ r.status = 200 /\ mon.phase = "I" /\ same
    THEN [mon EXCEPT !.phase = "IR"]
    ELSE IF r.op = "remove" /\ mon.phase = "IR" /\ same
    THEN [mon EXCEPT !.phase = "IRR"]
    ELSE NoMon

\* The requests of the shirt scenario: create, two inserts, and a sample
\* before and after each of the two removals.
Scenario ==
    << [op |-> "create", type_name |-> "shirt", item |-> None],
       [op |-> "add", type_name |-> "shirt", item |-> Garment("Shirt", "M", "blue")],
       [op |-> "add", type_name |-> "shirt", item |-> Garment("Shirt", "L", "red")],
       [op |-> "get_random", type_name |-> "shirt", item |-> None],
       [op |-> "remove", type_name |-> "shirt", item |-> Garment("Shirt", "M", "blue")],
       [op |-> "get_random", type_name |-> "shirt", item |-> None],
       [op |-> "remove", type_name |-> "shirt", item |-> Garment("Shirt", "L", "red")],
       [op |-> "get_random", type_name |-> "shirt", item |-> None] >>

\* scen after the request answered by r.
Follow(r) ==
    IF /\ scen >= 0
       /\ scen < Len(Scenario)
       /\ [op |-> r.op, type_name |-> r.type_name, item |-> r.item] = Scenario[scen + 1]
    THEN scen + 1
    ELSE -1

\* The handler responds r and leaves `pools` as newPools.
Respond(r, newPools) ==
    /\ pools' = newPools
    /\ last' = r
    /\ pre' = pools
    /\ mon' = Advance(r)
    /\ scen' = Follow(r)
    /\ UNCHANGED max_size

\* create_object_pool without the test for an existing pool: the pool is
\* replaced.
create_object_pool_overwrite(type_name) ==
    IF type_name \notin DOMAIN registered_types
    THEN Respond(Response("create", type_name, None, 400,
                          "Type not registered", None), pools)
    ELSE LET pool_type == registered_types[type_name] IN
         Respond(Response("create", type_name, None, 200, "", None),
                 Store(type_name, ObjectPoolManagement_init(pool_type, max_size)))

\* create_object_pool without the test for a registered type: an unknown name
\* gets a pool bound to the name itself.
create_object_pool_any_type(type_name) ==
    IF type_name \in DOMAIN pools
    THEN Respond(Response("create", type_name, None, 400,
                          "Pool for this type already exists", None), pools)
    ELSE LET pool_type == IF type_name \in DOMAIN registered_types
                          THEN registered_types[type_name]
                          ELSE type_name IN
         Respond(Response("create", type_name, None, 200, "", None),
                 Store(type_name, ObjectPoolManagement_init(pool_type, max_size)))

\* main.py:88-105
create_object_pool(type_name) ==
    IF type_name \in DOMAIN pools
    THEN Respond(Response("create", type_name, None, 400,
                          "Pool for this type already exists", None), pools)
    ELSE IF type_name \notin DOMAIN registered_types
    THEN Respond(Response("create", type_name, None, 400,
                          "Type not registered", None), pools)
    ELSE LET pool_type == registered_types[type_name] IN
         Respond(Response("create", type_name, None, 200, "", None),
                 Store(type_name, ObjectPoolManagement_init(pool_type, max_size)))

\* get_random_object_from_pool sampling whichever pool exists instead of the
\* one named.
get_random_object_from_any_pool(type_name) ==
    IF type_name \notin DOMAIN pools
    THEN Respond(Response("get_random", type_name, None, 404, "Pool not found", None),
                 pools)
    ELSE \E n \in DOMAIN pools :
         \E o \in ObjectPoolManagement_get_random_object_from_pool(pools[n]) :
            IF o.exc = "IndexError"
            THEN Respond(Response("get_random", type_name, None, 404, o.detail, None),
                         pools)
            ELSE Respond(Response("get_random", type_name, None, 200, "", dict(o.ret)),
                         pools)

\* main.py:151-170
get_random_object_from_pool(type_name) ==
    IF type_name \notin DOMAIN pools
    THEN Respond(Response("get_random", type_name, None, 404, "Pool not found", None),
                 pools)
    ELSE \E o \in ObjectPoolManagement_get_random_object_from_pool(pools[type_name]) :
            IF o.exc = "IndexError"
            THEN Respond(Response("get_random", type_name, None, 404, o.detail, None),
                         Store(type_name, o.self))
            ELSE Respond(Response("get_random", type_name, None, 200, "", dict(o.ret)),
                         Store(type_name, o.self))

\* add_object_to_pool creating the pool it does not find (pools.setdefault)
\* before answering.
add_object_to_pool_autocreate(type_name, item) ==
    IF type_name \notin DOMAIN pools
    THEN Respond(Response("add", type_name, item, 404, "Pool not found", None),
                 Store(type_name, ObjectPoolManagement_init(item.cls, max_size)))
    ELSE LET pool == pools[type_name] IN
         IF ~isinstance(item, pool.expected_type)
         THEN Respond(Response("add", type_name, item, 400,
                               "Object type does not match pool type", None), pools)
         ELSE LET o == ObjectPoolManagement_add_object_to_pool(pool, item) IN
              IF o.exc # ""
              THEN Respond(Response("add", type_name, item, 400, o.detail, None),
                           Store(type_name, o.self))
              ELSE Respond(Response("add", type_name, item, 200, "", None),
                           Store(type_name, o.self))

\* add_object_to_pool testing the capacity before the type.
add_object_to_pool_capacity_first(type_name, item) ==
    IF type_name \notin DOMAIN pools
    THEN Respond(Response("add", type_name, item, 404, "Pool not found", None), pools)
    ELSE LET pool == pools[type_name] IN
         IF Len(pool.pool) >= pool.max_size
         THEN Respond(Response("add", type_name, item, 400,
                               "Input list is too large.", None), pools)
         ELSE IF ~isinstance(item, pool.expected_type)
         THEN Respond(Response("add", type_name, item, 400,
                               "Object type does not match pool type", None), pools)
         ELSE Respond(Response("add", type_name, item, 200, "", None),
                      Store(type_name, [pool EXCEPT !.pool = Append(pool.pool, item)]))

\* main.py:219-253
add_object_to_pool(type_name, item) ==
    IF type_name \notin DOMAIN pools
    THEN Respond(Response("add", type_name, item, 404, "Pool not found", None), pools)
    ELSE LET pool == pools[type_name] IN
         IF ~isinstance(item, pool.expected_type)
         THEN Respond(Response("add", type_name, item, 400,
                               "Object type does not match pool type", None), pools)
         ELSE LET o == ObjectPoolManagement_add_object_to_pool(pool, item) IN
              IF o.exc = "ValueError"
              THEN Respond(Response("add", type_name, item, 400, o.detail, None),
                           Store(type_name, o.self))
              ELSE IF o.exc = "InputTooLargeError"
              THEN Respond(Response("add", type_name, item, 400, o.detail, None),
                           Store(type_name, o.self))
              ELSE Respond(Response("add", type_name, item, 200, "", None),
                           Store(type_name, o.self))

\* remove_object_from_pool deleting the registry entry of a pool it has
\* emptied.
remove_object_from_pool_drop_empty(type_name, item) ==
    IF type_name \notin DOMAIN pools
    THEN Respond(Response("remove", type_name, item, 404, "Pool not found", None), pools)
    ELSE LET pool == pools[type_name] IN
         IF ~isinstance(item, pool.expected_type)
         THEN Respond(Response("remove", type_name, item, 400,
                               "Object type does not match pool type", None), pools)
         ELSE LET o == ObjectPoolManagement_remove_object_from_pool(pool, item) IN
              IF o.exc = "ValueError"
              THEN Respond(Response("remove", type_name, item, 400, o.detail, None),
                           Store(type_name, o.self))
              ELSE Respond(Response("remove", type_name, item, 200, "", None),
                           IF Len(o.self.pool) = 0
                           THEN [n \in DOMAIN pools \ {type_name} |-> pools[n]]
                           ELSE Store(type_name, o.self))

\* main.py:302-337
remove_object_from_pool(type_name, item) ==
    IF type_name \notin DOMAIN pools
    THEN Respond(Response("remove", type_name, item, 404, "Pool not found", None), pools)
    ELSE LET pool == pools[type_name] IN
         IF ~isinstance(item, pool.expected_type)
         THEN Respond(Response("remove", type_name, item, 400,
                               "Object type does not match pool type", None), pools)
         ELSE LET o == ObjectPoolManagement_remove_object_from_pool(pool, item) IN
              IF o.exc = "ValueError"
              THEN Respond(Response("remove", type_name, item, 400, o.detail, None),
                           Store(type_name, o.self))
              ELSE Respond(Response("remove", type_name, item, 200, "", None),
                           Store(type_name, o.self))

-----------------------------------------------------------------------------
(* Specification                                                           *)

\* main.py:38-41: no pools; max_size read from the environment.
Init ==
    /\ pools = [n \in {} |-> None]
    /\ max_size \in 1..MaxCapacity
    /\ last = Response("", "", None, 0, "", None)
    /\ pre = pools
    /\ mon = NoMon
    /\ scen = 0

Next ==
    \E type_name \in TypeNames :
        \/ create_object_pool(type_name)
        \/ get_random_object_from_pool(type_name)
        \/ \E item \in Items : add_object_to_pool(type_name, item)
        \/ \E item \in Items : remove_object_from_pool(type_name, item)

Spec == Init /\ [][Next]_vars

-----------------------------------------------------------------------------
(* Properties                                                              *)

\* The pool the last request addressed, when it arrived and now.
PoolBefore == pre[last.type_name]
PoolNow == pools[last.type_name]

\* C1: in every reachable state every pool of the registry holds at least
\* zero and at most max_size (its capacity) members.
MembersWithinCapacity ==
    \A n \in DOMAIN pools :
        /\ 0 <= Len(pools[n].pool)
        /\ Len(pools[n].pool) <= pools[n].max_size

\* A pool filled to its capacity has just refused a further conforming object.
FullPoolRefusedInsert ==
    /\ last.op = "add"
    /\ last.detail = "Input list is too large."
    /\ Len(PoolNow.pool) = PoolNow.max_size

\* C2 as stated: an insert into a pool whose member count equals its capacity
\* fails with CapacityExceeded (400, "Input list is too large.") and leaves the
\* members unchanged, whatever the object; an insert of a conforming object
\* into an empty pool succeeds.
InsertAtCapacityAlwaysCapacityExceeded ==
    (last.op = "add" /\ last.type_name \in DOMAIN pre) =>
        /\ Len(PoolBefore.pool) = PoolBefore.max_size =>
               /\ last.status = 400
               /\ last.detail = "Input list is too large."
               /\ pools = pre
        /\ (Len(PoolBefore.pool) = 0 /\ last.item.cls = PoolBefore.expected_type) =>
               /\ last.status = 200
               /\ PoolNow.pool = <<last.item>>

\* C2 amended: an insert of a conforming object into a pool whose member
\* count equals its capacity fails with CapacityExceeded and leaves the members
\* unchanged; an insert of a non-conforming object into such a pool fails with
\* TypeMismatch instead, also leaving the members unchanged; an insert of a
\* conforming object into an empty pool succeeds.
ConformingInsertAtCapacityExceeds ==
    (last.op = "add" /\ last.type_name \in DOMAIN pre) =>
        /\ (Len(PoolBefore.pool) = PoolBefore.max_size
              /\ last.item.cls = PoolBefore.expected_type) =>
               /\ last.status = 400
               /\ last.detail = "Input list is too large."
               /\ pools = pre
        /\ (Len(PoolBefore.pool) = PoolBefore.max_size
              /\ last.item.cls # PoolBefore.expected_type) =>
               /\ last.status = 400
               /\ last.detail = "Object type does not match pool type"
               /\ pools = pre
        /\ (Len(PoolBefore.pool) = 0 /\ last.item.cls = PoolBefore.expected_type) =>
               /\ last.status = 200
               /\ PoolNow.pool = <<last.item>>

\* With capacity 1 a second conforming insert has been refused.
SecondInsertRefusedAtCapacityOne ==
    /\ max_size = 1
    /\ last.op = "add"
    /\ last.type_name \in DOMAIN pre
    /\ Len(PoolBefore.pool) = 1
    /\ last.item.cls = PoolBefore.expected_type
    /\ last.item # PoolBefore.pool[1]

\* C3: a create for a name that is already a key of the registry fails with
\* AlreadyExists (400, "Pool for this type already exists") and leaves the
\* registry, and so the existing pool's members, type and capacity, unchanged.
DuplicateCreateRejected ==
    (last.op = "create" /\ last.type_name \in DOMAIN pre) =>
        /\ last.status = 400
        /\ last.detail = "Pool for this type already exists"
        /\ pools = pre

\* A create has been issued for a pool that already held members.
DuplicateCreateOnFilledPool ==
    /\ last.op = "create"
    /\ last.type_name \in DOMAIN pre
    /\ Len(PoolBefore.pool) > 0


\* C4: a create for a type name with no entry in the type registry fails with
\* UnknownType (400, "Type not registered") and the registry is unchanged, with
\* no entry for that name.
UnknownTypeCreateRejected ==
    (last.op = "create" /\ last.type_name \notin {"shirt", "pants", "sock"}) =>
        /\ last.status = 400
        /\ last.detail = "Type not registered"
        /\ pools = pre
        /\ last.type_name \notin DOMAIN pools

\* A create for an unregistered name has been answered while pools exist.
UnknownTypeCreateSeen ==
    /\ last.op = "create"
    /\ last.type_name = "book"
    /\ DOMAIN pools # {}

\* C5: a create for an absent name of a registered type succeeds and adds
\* exactly one registry entry, for that name: a pool with no members, bound to
\* the class registered under the name and to the process-wide max_size; a
\* sample on that pool immediately afterwards yields EmptyPool (404, "No
\* objects in the pool").
CreateAddsOneEmptyPool ==
    /\ (last.op = "create" /\ last.type_name \notin DOMAIN pre
          /\ last.type_name \in {"shirt", "pants", "sock"}) =>
            /\ last.status = 200
            /\ DOMAIN pools = DOMAIN pre \cup {last.type_name}
            /\ \A n \in DOMAIN pre : pools[n] = pre[n]
            /\ PoolNow.pool = <<>>
            /\ PoolNow.expected_type = registered_types[last.type_name]
            /\ PoolNow.max_size = max_size
    /\ (last.op = "create" /\ last.status = 200) =>
            /\ last.type_name \notin DOMAIN pre
            /\ last.type_name \in {"shirt", "pants", "sock"}
    /\ mon.phase = "CS" =>
            /\ last.op = "get_random"
            /\ last.status = 404
            /\ last.detail = "No objects in the pool"
            /\ last.ret = None

\* A pool has been sampled right after its creation, next to an older pool
\* that holds members.
SampledRightAfterCreate ==
    /\ mon.phase = "CS"
    /\ \E n \in DOMAIN pools : Len(pools[n].pool) > 0

\* C6: an insert of an object that is not an instance of the pool's expected
\* type fails with TypeMismatch (400, "Object type does not match pool type")
\* and leaves the members unchanged, whatever the pool holds.
NonConformingInsertRejected ==
    (last.op = "add" /\ last.type_name \in DOMAIN pre
      /\ last.item.cls # PoolBefore.expected_type) =>
        /\ last.status = 400
        /\ last.detail = "Object type does not match pool type"
        /\ pools = pre

\* A non-conforming object has been offered to a pool that holds members and
\* has room left.
NonConformingInsertIntoFilledPool ==
    /\ last.op = "add"
    /\ last.type_name \in DOMAIN pre
    /\ last.item.cls # PoolBefore.expected_type
    /\ Len(PoolBefore.pool) > 0
    /\ Len(PoolBefore.pool) < PoolBefore.max_size


\* C7 as stated: after a successful insert of an object and a successful
\* removal of the same object right after it, the pool has the member count it
\* had before the insert, and a further removal of that object right after
\* that yields NotFound ("Object not found in pool"), whatever the pool held.
RoundTripThenNotFound ==
    /\ mon.phase = "IR" => Len(PoolNow.pool) = mon.before
    /\ mon.phase = "IRR" =>
            /\ last.status # 200
            /\ last.detail = "Object not found in pool"
            /\ Len(PoolNow.pool) = mon.before

\* C7 amended: after a successful insert of an object and a successful
\* removal of the same object right after it, the pool has the member count it
\* had before the insert; a further removal of that object right after that
\* yields NotFound when the pool held no equal member before the insert, and
\* otherwise succeeds and removes one such member.
RoundTripThenNotFoundUnlessDuplicate ==
    /\ mon.phase = "IR" => Len(PoolNow.pool) = mon.before
    /\ (mon.phase = "IRR" /\ ~mon.dup) =>
            /\ last.status # 200
            /\ last.detail = "Object not found in pool"
            /\ Len(PoolNow.pool) = mon.before
    /\ (mon.phase = "IRR" /\ mon.dup) =>
            /\ last.status = 200
            /\ Len(PoolNow.pool) = mon.before - 1

\* An object inserted into a pool holding a different member has been removed
\* and a second removal attempted.
SecondRemovalAfterRoundTrip ==
    /\ mon.phase = "IRR"
    /\ ~mon.dup
    /\ mon.before > 0

\* C8: a sample on a pool with no members yields EmptyPool (404, "No objects
\* in the pool"); a sample on a pool with members succeeds and every result
\* is the dict of a member the named pool holds at that moment.
SampleIsCurrentMember ==
    (last.op = "get_random" /\ last.type_name \in DOMAIN pre) =>
        /\ Len(PoolBefore.pool) = 0 =>
                /\ last.status = 404
                /\ last.detail = "No objects in the pool"
                /\ last.ret = None
        /\ Len(PoolBefore.pool) > 0 =>
                /\ last.status = 200
                /\ \E i \in 1..Len(PoolNow.pool) :
                       /\ last.ret.size = PoolNow.pool[i].size
                       /\ last.ret.color = PoolNow.pool[i].color
                /\ \E i \in 1..Len(PoolBefore.pool) :
                       /\ last.ret.size = PoolBefore.pool[i].size
                       /\ last.ret.color = PoolBefore.pool[i].color

\* A sample has returned a member of a pool of two while another pool holds
\* an object the sampled pool does not.
SampledAmongSeveralPools ==
    /\ last.op = "get_random"
    /\ last.status = 200
    /\ Len(PoolNow.pool) = 2
    /\ \E n \in DOMAIN pools \ {last.type_name} :
           \E j \in 1..Len(pools[n].pool) :
               \A i \in 1..Len(PoolNow.pool) :
                   pools[n].pool[j].size # PoolNow.pool[i].size

\* C9: a sample, successful or not, leaves the registry and the members of
\* every pool as they were.
SampleLeavesPoolsUnchanged ==
    last.op = "get_random" => pools = pre

\* A sample has succeeded on a pool with members.
SampleSucceeded ==
    /\ last.op = "get_random"
    /\ last.status = 200
    /\ Len(PoolBefore.pool) > 0

\* C10: every failing request is answered 400 (client error) or 404 (not
\* found); a duplicate create, a type mismatch and an insert at capacity are
\* answered 400; an absent pool, a sample on an empty pool and a removal of an
\* object with no equal member are answered 404.
ErrorClasses ==
    LET exists == last.type_name \in DOMAIN pre
        conforms == last.item.cls = PoolBefore.expected_type
        present == \E i \in 1..Len(PoolBefore.pool) : PoolBefore.pool[i] = last.item
    IN
    /\ (last.op # "" /\ last.status # 200) => last.status \in {400, 404}
    /\ (last.op = "create" /\ exists) => last.status = 400
    /\ (last.op \in {"add", "remove"} /\ exists /\ ~conforms) => last.status = 400
    /\ (last.op = "add" /\ exists /\ conforms
          /\ Len(PoolBefore.pool) = PoolBefore.max_size) => last.status = 400
    /\ (last.op \in {"add", "remove", "get_random"} /\ ~exists) => last.status = 404
    /\ (last.op = "get_random" /\ exists /\ Len(PoolBefore.pool) = 0) =>
            last.status = 404
    /\ (last.op = "remove" /\ exists /\ conforms /\ ~present) => last.status = 404


\* C11: a name that is a key of the registry stays a key in every later
\* state, bound to the same type and capacity; no request removes an entry,
\* and a create leaves every existing entry as it is.
KeysPersist ==
    [][\A n \in DOMAIN pools :
          /\ n \in DOMAIN pools'
          /\ pools'[n].expected_type = pools[n].expected_type
          /\ pools'[n].max_size = pools[n].max_size
          /\ last'.op = "create" => pools'[n] = pools[n]]_vars

\* All three pools exist and a removal has just emptied one of them.
PoolEmptiedStillRegistered ==
    /\ DOMAIN pools = {"shirt", "pants", "sock"}
    /\ last.op = "remove"
    /\ last.status = 200
    /\ Len(PoolNow.pool) = 0

\* C12 as stated: when the requests served from the start are those of the
\* shirt scenario, every create, insert and removal succeeds, the first sample
\* returns {M, blue} or {L, red}, the second returns {L, red} and the third
\* yields EmptyPool, whatever the capacity.
ShirtScenario ==
    LET MB == [size |-> "M", color |-> "blue"]
        LR == [size |-> "L", color |-> "red"]
    IN
    /\ scen \in {1, 2, 3, 5, 7} => last.status = 200
    /\ scen = 4 => (last.status = 200 /\ last.ret \in {MB, LR})
    /\ scen = 6 => (last.status = 200 /\ last.ret = LR)
    /\ scen = 8 => (last.status = 404 /\ last.detail = "No objects in the pool")

\* C12 amended: with a capacity of at least 2 the scenario runs as stated;
\* with a capacity of 1 its second insert yields CapacityExceeded.
ShirtScenarioWithRoom ==
    LET MB == [size |-> "M", color |-> "blue"]
        LR == [size |-> "L", color |-> "red"]
    IN
    /\ max_size >= 2 =>
        /\ scen \in {1, 2, 3, 5, 7} => last.status = 200
        /\ scen = 4 => (last.status = 200 /\ last.ret \in {MB, LR})
        /\ scen = 6 => (last.status = 200 /\ last.ret = LR)
        /\ scen = 8 => (last.status = 404 /\ last.detail = "No objects in the pool")
    /\ (max_size = 1 /\ scen = 3) =>
        (last.status = 400 /\ last.detail = "Input list is too large.")

\* The whole scenario has been served by a pool with room for both shirts.
ShirtScenarioCompleted ==
    /\ scen = 8
    /\ max_size >= 2


\* C13: a successful removal takes out exactly one member, the first one in
\* insertion order that equals the object; every other member, further equal
\* ones included, stays in its previous relative order, and the member count
\* decreases by exactly one.
RemovalDropsFirstMatchOnly ==
    (last.op = "remove" /\ last.status = 200) =>
        /\ last.type_name \in DOMAIN pre
        /\ Len(PoolNow.pool) = Len(PoolBefore.pool) - 1
        /\ \E i \in 1..Len(PoolBefore.pool) :
               /\ PoolBefore.pool[i] = last.item
               /\ \A j \in 1..(i - 1) : PoolBefore.pool[j] # last.item
               /\ \A j \in 1..(i - 1) : PoolNow.pool[j] = PoolBefore.pool[j]
               /\ \A j \in i..Len(PoolNow.pool) : PoolNow.pool[j] = PoolBefore.pool[j + 1]

\* An object has been removed from a pool that held it twice with a
\* different object in between.
RemovedOneOfTwoEqualMembers ==
    /\ last.op = "remove"
    /\ last.status = 200
    /\ Len(PoolBefore.pool) = 3
    /\ PoolBefore.pool[1] = last.item
    /\ PoolBefore.pool[2] # last.item
    /\ PoolBefore.pool[3] = last.item

\* C14: an insert or a removal answered with an error (pool not found, type
\* mismatch, capacity exceeded, object not found) leaves the registry keys and
\* the members of every pool as they were.
FailedInsertOrRemoveChangesNothing ==
    (last.op \in {"add", "remove"} /\ last.status # 200) =>
        /\ DOMAIN pools = DOMAIN pre
        /\ \A n \in DOMAIN pre : pools[n].pool = pre[n].pool

\* A removal of an absent object has been refused by a pool holding another
\* member.
RemovalOfAbsentObjectRefused ==
    /\ last.op = "remove"
    /\ last.detail = "Object not found in pool"
    /\ Len(PoolBefore.pool) > 0

\* C15: an insert of a non-conforming object into a pool whose member count
\* equals its capacity yields TypeMismatch, never CapacityExceeded.
TypeCheckedBeforeCapacity ==
    (last.op = "add" /\ last.type_name \in DOMAIN pre
      /\ Len(PoolBefore.pool) = PoolBefore.max_size
      /\ last.item.cls # PoolBefore.expected_type) =>
        /\ last.detail \in {"Object type does not match pool type",
                             "Object type does not match expected type"}
        /\ last.detail # "Input list is too large."

\* An object of another registered type has been offered to a full pool.
ForeignObjectOfferedToFullPool ==
    /\ last.op = "add"
    /\ last.type_name \in DOMAIN pre
    /\ Len(PoolBefore.pool) = PoolBefore.max_size
    /\ last.item.cls \in {"Shirt", "Pants", "Sock"}
    /\ last.item.cls # PoolBefore.expected_type


\* C16: in every reachable state every member of every pool is an instance
\* of that pool's expected type.
MembersConform ==
    \A n \in DOMAIN pools :
        \A i \in 1..Len(pools[n].pool) :
            pools[n].pool[i].cls = pools[n].expected_type

\* With members in all three pools, an object of another registered type has
\* been offered to one of them.
ForeignObjectOfferedAmongFilledPools ==
    /\ DOMAIN pools = {"shirt", "pants", "sock"}
    /\ \A n \in DOMAIN pools : Len(pools[n].pool) > 0
    /\ last.op = "add"
    /\ last.item.cls \in {"Shirt", "Pants", "Sock"}
    /\ last.item.cls # PoolNow.expected_type

\* C17: an insert, a removal or a sample naming a pool that is not in the
\* registry fails with NotFound (404, "Pool not found") whatever object is
\* supplied, and the registry is unchanged, with no entry for the name.
AbsentPoolNotFound ==
    (last.op \in {"add", "remove", "get_random"} /\ last.type_name \notin DOMAIN pre) =>
        /\ last.status = 404
        /\ last.detail = "Pool not found"
        /\ pools = pre
        /\ last.type_name \notin DOMAIN pools

\* An object that no pool could accept has been offered to a pool that does
\* not exist, while other pools do.
BookOfferedToAbsentPool ==
    /\ last.op = "add"
    /\ last.type_name \notin DOMAIN pools
    /\ last.item.cls = "Book"
    /\ DOMAIN pools # {}

\* C18: in every reachable state every registry key is a registered type
\* name, the pool under it is bound to the class registered under that name
\* and to the process-wide max_size, the type and capacity of a pool are what
\* they were before the last request, and there are at most as many pools as
\* registered types.
PoolsBoundToRegisteredTypes ==
    LET classOf == [shirt |-> "Shirt", pants |-> "Pants", sock |-> "Sock"] IN
    /\ DOMAIN pools \subseteq {"shirt", "pants", "sock"}
    /\ Cardinality(DOMAIN pools) <= 3
    /\ \A n \in DOMAIN pools :
           /\ pools[n].expected_type = classOf[n]
           /\ pools[n].max_size = max_size
    /\ \A n \in DOMAIN pre :
           /\ n \in DOMAIN pools
           /\ pools[n].expected_type = pre[n].expected_type
           /\ pools[n].max_size = pre[n].max_size

\* With all three pools created, an insert has filled one of them.
AllPoolsCreatedOneFilled ==
    /\ DOMAIN pools = {"shirt", "pants", "sock"}
    /\ last.op = "add"
    /\ last.status = 200
    /\ Len(PoolNow.pool) = PoolNow.max_size

\* C19: a request addressed to one pool name leaves the members, type and
\* capacity of every pool stored under another name as they were.
OtherPoolsUntouched ==
    \A n \in DOMAIN pre \ {last.type_name} :
        /\ n \in DOMAIN pools
        /\ pools[n] = pre[n]

\* A request has changed one pool while two others hold members.
PoolChangedBesideFilledPools ==
    /\ last.op \in {"add", "remove"}
    /\ last.status = 200
    /\ Cardinality({n \in DOMAIN pre \ {last.type_name} : Len(pre[n].pool) > 0}) = 2

====
